---- MODULE Spec2Model ----
(***************************************************************************)
(* Model of nodeset_validator_summary.py: the paginated, retrying fetch of *)
(* the Multicall3 transaction history (fetch_multicall_transactions) and   *)
(* the filter/aggregation pass with its report                             *)
(* (summarize_validators_by_operator), driven from main.                   *)
(*                                                                         *)
(* Strings the code inspects (payloads, the selector, the vault address)   *)
(* are sequences of one-character strings, so that lower(), slicing and    *)
(* the substring test are computed.  Sender addresses are atomic strings:  *)
(* the code only hands them to to_checksum_address.                        *)
(***************************************************************************)
EXTENDS Integers, Sequences, FiniteSets, TLC

VARIABLES
    pc,               \* position: "main", "setup_web3", "fetch", "loop", "report", "exit"
    api_key,          \* os.getenv('ETHERSCAN_API_KEY'): "None", "" or a key
    node_up,          \* what web3.is_connected() answers
    probed,           \* history: web3.is_connected() has been called
    history,          \* the contract's transactions at the indexing API, newest first;
                      \* only SpecHistory lets the responses depend on it
    page,             \* fetch: page number of the next request
    attempt,          \* fetch: index of the next attempt in range(MAX_RETRIES)
    all_transactions, \* fetch: records accumulated so far
    log,              \* history: the page of every request issued and the response it got
    sleeps,           \* history: the delay of every sleep() and the request it came after
    transactions,     \* summarize: the list fetch returned
    idx,              \* summarize: 1-based position of the for loop in transactions
    address_stats,    \* summarize: checksummed sender -> successful count
    printed,          \* lines written to standard output
    exc               \* exception that left the program, "none" when none did

vars == <<pc, api_key, node_up, probed, history, page, attempt, all_transactions, log, sleeps,
          transactions, idx, address_stats, printed, exc>>

fetchVars == <<page, attempt, all_transactions, log, sleeps>>
sumVars   == <<transactions, idx, address_stats, printed>>

----------------------------------------------------------------------------
(* Program constants *)

PAGE_OFFSET == 1000
MAX_RETRIES == 3
RETRY_DELAY == 2

AGGREGATE_SIGNATURE == <<"0","x","2","5","2","d","b","a","4","2">>

NODESET_VAULT_ADDRESS ==
    <<"0","x","B","2","6","6","2","7","4","F","5","5","e","7","8","4","6","8","9","e","9",
      "7","b","7","E","3","6","3","B","0","6","6","6","d","9","2","e","6","3","0","5","B">>

(* Bounds of the model *)

MaxPage == 2      \* the history ends on this page at the latest
MaxShort == 1     \* records in a last (short) page of a whole run
MaxLen == 4       \* records in the list handed to the aggregation pass alone
MaxNew == 2       \* transactions by which the history outgrows one page during a run

----------------------------------------------------------------------------
(* Strings *)

\* str.lower() on one character
LowerChar(c) ==
    CASE c = "A" -> "a" [] c = "B" -> "b" [] c = "C" -> "c" [] c = "D" -> "d"
      [] c = "E" -> "e" [] c = "F" -> "f" [] c = "X" -> "x"
      [] OTHER -> c

Lower(s) == [k \in 1..Len(s) |-> LowerChar(s[k])]

\* s[:n]
Prefix(s, n) == SubSeq(s, 1, IF Len(s) < n THEN Len(s) ELSE n)

\* s[n:]
DropFirst(s, n) == SubSeq(s, n + 1, Len(s))

\* sub in s
Contains(sub, s) ==
    \E k \in 0..(Len(s) - Len(sub)) : SubSeq(s, k + 1, k + Len(sub)) = sub

\* 2 ** n
RECURSIVE Pow2(_)
Pow2(n) == IF n = 0 THEN 1 ELSE 2 * Pow2(n - 1)

----------------------------------------------------------------------------
(* Addresses and web3.to_checksum_address *)

AddrA_lower == "0xd8da6bf26964af9d7eed9e03e53415d37aa96045"
AddrA_check == "0xd8dA6BF26964aF9D7eEd9e03E53415D37aA96045"
AddrB_lower == "0x5aaeb6053f3e94c9b9a09f33669435e7ef1beaed"
AddrB_check == "0x5aAeb6053F3E94C9b9A09f33669435E7Ef1BeAed"

\* EIP-55 form of an address given in any letter case
to_checksum_address(a) ==
    CASE a \in {AddrA_lower, AddrA_check} -> AddrA_check
      [] a \in {AddrB_lower, AddrB_check} -> AddrB_check

\* vault_address.lower()[2:], the hex digits looked for in a payload
VaultDigits == DropFirst(Lower(NODESET_VAULT_ADDRESS), 2)

----------------------------------------------------------------------------
(* Payloads and transaction records *)

UpperSelector == <<"0","X","2","5","2","D","B","A","4","2">>
OtherSelector == <<"0","x","a","9","0","5","9","c","b","b">>
Word          == <<"0","0","0","0","0","0","2","0">>

PayAggVault      == AGGREGATE_SIGNATURE \o Word \o VaultDigits
PayAggVaultMixed == UpperSelector \o DropFirst(NODESET_VAULT_ADDRESS, 2) \o Word
PayAggOther      == AGGREGATE_SIGNATURE \o Word
PayOtherVault    == OtherSelector \o Word \o VaultDigits
PayShort         == <<"0","x","2","5","2","d">>
PayEmpty         == <<>>

\* a record of the txlist answer; of its members the code reads hash, from,
\* input and isError
Tx(f, inp, err) == [hash |-> "0xh", from |-> f, input |-> inp, isError |-> err]

\* tx.get(key, default)
Get(tx, key, default) == IF key \in DOMAIN tx THEN tx[key] ELSE default

\* the records the indexing API may list
Records ==
    { Tx(AddrA_lower, PayAggVault, "0"),
      Tx(AddrA_check, PayAggVaultMixed, "0"),
      Tx(AddrB_lower, PayAggVault, "0"),
      Tx(AddrA_lower, PayAggVault, "1"),
      Tx(AddrB_lower, PayAggVaultMixed, "1"),
      Tx(AddrB_lower, PayAggOther, "0"),
      Tx(AddrA_lower, PayOtherVault, "0"),
      Tx(AddrB_lower, PayShort, "0"),
      Tx(AddrA_lower, PayEmpty, "0") }

\* int(s) of an error flag
IntOf(s) == CASE s = "0" -> 0 [] s = "1" -> 1

\* all sequences over S of length at most n
RECURSIVE SeqsUpTo(_, _)
SeqsUpTo(S, n) ==
    IF n = 0 THEN {<<>>}
    ELSE LET shorter == SeqsUpTo(S, n - 1)
         IN  shorter \cup {Append(s, x) : s \in shorter, x \in S}

----------------------------------------------------------------------------
(* Responses of the indexing API to one requests.get *)

\* kind "transport": requests.get raised a RequestException that is no
\* HTTPError (connection error, timeout); kind "http": a response arrived with
\* status code `code` and a body: a JSON object ("dict") with its `status` and
\* `result` members, another JSON value ("other"), or no JSON at all.
Resp(kind, code, body, status, rkind, result) ==
    [kind |-> kind, code |-> code, body |-> body, status |-> status,
     rkind |-> rkind, result |-> result]

TransportError == Resp("transport", 0, "none", "absent", "absent", <<>>)
HttpError(c)   == Resp("http", c, "none", "absent", "absent", <<>>)
NotJson        == Resp("http", 200, "not_json", "absent", "absent", <<>>)
JsonNotObject  == Resp("http", 200, "other", "absent", "absent", <<>>)
JsonObject(status, rkind, result) == Resp("http", 200, "dict", status, rkind, result)

Repeat(r, n) == [k \in 1..n |-> r]

PageRecords == { Tx(AddrA_lower, PayAggVault, "0"),
                 Tx(AddrB_lower, PayAggVault, "1"),
                 Tx(AddrA_lower, PayEmpty, "0") }

FullRecords == { Tx(AddrA_lower, PayEmpty, "0"), Tx(AddrB_lower, PayShort, "0") }

\* a page of exactly `offset` records: more history follows
FullPages == {Repeat(r, PAGE_OFFSET) : r \in FullRecords}

\* a page of fewer than `offset` records: the history ends here
ShortPages == SeqsUpTo(PageRecords, MaxShort)
                \cup {Repeat(r, PAGE_OFFSET - 1) : r \in FullRecords}

\* The API honours offset=1000 (never more than 1000 records in a page) and
\* the history is finite: page MaxPage is not full.
Responses(p) ==
    {TransportError, HttpError(429), HttpError(500), NotJson, JsonNotObject}
      \cup {JsonObject("1", "list", r) : r \in ShortPages}
      \cup {JsonObject("1", "list", r) : r \in IF p < MaxPage THEN FullPages ELSE {}}
      \cup {JsonObject("absent", "list", <<Tx(AddrA_lower, PayAggVault, "0")>>)}
      \cup {JsonObject("0", "list", r) : r \in {<<>>, <<Tx(AddrB_lower, PayAggVault, "0")>>}}
      \cup {JsonObject("1", "null", <<>>), JsonObject("1", "absent", <<>>)}

----------------------------------------------------------------------------
(* fetch_multicall_transactions, one attempt of the for loop at a time *)

\* response.raise_for_status() raises HTTPError
RaisesHTTPError(resp) == resp.kind = "http" /\ resp.code >= 400

\* line 90 without `attempt < MAX_RETRIES - 1`
ShouldRetry_NoAttemptLimit(resp, att) ==
    RaisesHTTPError(resp) /\ resp.code = 429

\* line 90 without `response.status_code == 429`
ShouldRetry_AnyHTTPError(resp, att) ==
    RaisesHTTPError(resp) /\ att < MAX_RETRIES - 1

\* the except clause retries: line 90
ShouldRetry(resp, att) ==
    RaisesHTTPError(resp) /\ resp.code = 429 /\ att < MAX_RETRIES - 1

\* line 91 without the factor 2 ** attempt
BackoffDelay_Constant(att) == RETRY_DELAY

\* the argument of sleep(): line 91
BackoffDelay(att) == RETRY_DELAY * Pow2(att)

\* `continue`: the next index of range(MAX_RETRIES); when the range is used up
\* the while loop starts the for loop again
NextAttempt(att) == IF att + 1 < MAX_RETRIES THEN att + 1 ELSE 0

\* data.get('result', [])
ResultOf(resp) == IF resp.rkind = "absent" THEN <<>> ELSE resp.result

\* the exception an attempt lets escape, "none" when it lets none escape
Escapes(resp) ==
    CASE resp.kind = "transport" -> "none"
      [] RaisesHTTPError(resp) -> "none"
      [] resp.body = "not_json" -> "none"
      [] resp.body = "other" -> "AttributeError"
      [] resp.status = "0" -> "none"
      [] resp.rkind = "null" -> "TypeError"
      [] OTHER -> "none"

\* lines 79-81 left out: a status "0" answer is taken for a page
IsPage_IgnoresStatus(resp) ==
    /\ resp.kind = "http" /\ ~RaisesHTTPError(resp)
    /\ resp.body = "dict" /\ resp.rkind # "null"

\* the response is a page whose records are appended: lines 82-84
IsPage(resp) ==
    /\ resp.kind = "http" /\ ~RaisesHTTPError(resp)
    /\ resp.body = "dict" /\ resp.status # "0" /\ resp.rkind # "null"

\* all_transactions.extend(transactions)
Extend(acc, resp) == acc \o ResultOf(resp)

\* line 85 with the limit one too low
IsLastPage_OffByOne(resp) == Len(ResultOf(resp)) < PAGE_OFFSET - 1

\* the page ends the history: line 85
IsLastPage(resp) == Len(ResultOf(resp)) < PAGE_OFFSET

\* return all_transactions, received by summarize_validators_by_operator
Return(list) ==
    /\ pc' = "loop"
    /\ transactions' = list
    /\ idx' = 1
    /\ address_stats' = <<>>
    /\ UNCHANGED <<printed, exc>>

Raise(e) ==
    /\ pc' = "exit"
    /\ exc' = e
    /\ UNCHANGED sumVars

\* one pass through the body of the for loop, lines 75-97, the request of
\* line 76 being answered by resp
Handle(resp) ==
    /\ log' = Append(log, [page |-> page, resp |-> resp])
    /\ IF ShouldRetry(resp, attempt)
       THEN /\ sleeps' = Append(sleeps, [delay |-> BackoffDelay(attempt),
                                         after |-> Len(log')])
            /\ attempt' = NextAttempt(attempt)
            /\ UNCHANGED <<pc, page, all_transactions, sumVars, exc>>
       ELSE IF Escapes(resp) # "none"
       THEN /\ Raise(Escapes(resp))
            /\ UNCHANGED <<page, attempt, all_transactions, sleeps>>
       ELSE IF ~IsPage(resp)
       THEN /\ Return(all_transactions)
            /\ UNCHANGED <<page, attempt, all_transactions, sleeps>>
       ELSE /\ all_transactions' = Extend(all_transactions, resp)
            /\ IF IsLastPage(resp)
               THEN /\ Return(all_transactions')
                    /\ UNCHANGED <<page, attempt, sleeps>>
               ELSE /\ page' = page + 1
                    /\ attempt' = 0
                    /\ UNCHANGED <<pc, sleeps, sumVars, exc>>

\* the API answers anything it may answer
FetchAttempt ==
    /\ pc = "fetch"
    /\ page <= MaxPage
    /\ \E resp \in Responses(page) : Handle(resp)
    /\ UNCHANGED <<api_key, node_up, probed, history>>

----------------------------------------------------------------------------
(* The indexing API serving the pages of a growing history *)

\* the n-th transaction sent to the contract: a relevant aggregate call of
\* sender f with error flag e, its number standing for its hash
HistoryTx(n, f, e) ==
    [from |-> f, input |-> PayAggVault, isError |-> e, hash |-> n]

\* a history of n counted calls of operator A, newest first (sort=desc)
HistoryOf(n) == [k \in 1..n |-> HistoryTx(n - k + 1, AddrA_lower, "0")]

\* action=txlist with page=p, offset=PAGE_OFFSET, sort=desc over hist:
\* records (p-1)*offset+1 .. p*offset of the list, status "0" when there are none
ApiAnswer(hist, p) ==
    LET first  == (p - 1) * PAGE_OFFSET + 1
        last   == IF p * PAGE_OFFSET < Len(hist) THEN p * PAGE_OFFSET ELSE Len(hist)
        window == SubSeq(hist, first, last)
    IN  IF window = <<>> THEN JsonObject("0", "list", <<>>)
                         ELSE JsonObject("1", "list", window)

\* every request succeeds and is answered from the history as it stands
FetchFromHistory ==
    /\ pc = "fetch"
    /\ Handle(ApiAnswer(history, page))
    /\ UNCHANGED <<api_key, node_up, probed, history>>

\* someone sends a transaction to the contract while the run is under way
NewTransaction ==
    /\ pc \in {"main", "setup_web3", "fetch"}
    /\ Len(history) < PAGE_OFFSET + MaxNew
    /\ \E f \in {AddrA_lower, AddrB_lower} :
          history' = <<HistoryTx(Len(history) + 1, f, "0")>> \o history
    /\ UNCHANGED <<pc, api_key, node_up, probed, fetchVars, sumVars, exc>>

----------------------------------------------------------------------------
(* summarize_validators_by_operator: the pass over the fetched records *)

\* line 134 without the comparison with the selector
IsAggregateCall_LengthOnly(input_data) ==
    input_data # <<>> /\ Len(input_data) >= 10

\* line 134: the payload starts with the aggregate selector
IsAggregateCall(input_data) ==
    /\ input_data # <<>>
    /\ Len(input_data) >= 10
    /\ Lower(Prefix(input_data, 10)) = Lower(AGGREGATE_SIGNATURE)

\* lines 112-115: the payload holds the vault address's hex digits
is_nodeset_transaction(tx, vault_address) ==
    Contains(DropFirst(Lower(vault_address), 2), Lower(Get(tx, "input", <<>>)))

\* lines 139-140: the operator's entry, created on first sight
WithEntry(stats, a) ==
    IF a \in DOMAIN stats THEN stats ELSE stats @@ (a :> [successful |-> 0])

\* line 142 without the test of line 141
Counted_WhateverTheFlag(stats, a, tx) ==
    [stats EXCEPT ![a].successful = @ + 1]

\* lines 141-142: the successful count goes up for error flag zero
Counted(stats, a, tx) ==
    IF IntOf(Get(tx, "isError", "0")) = 0
    THEN [stats EXCEPT ![a].successful = @ + 1]
    ELSE stats

\* the entry created before the relevance test of line 136
ProcessTx_EntryBeforeRelevance(stats, tx) ==
    IF IsAggregateCall(Get(tx, "input", <<>>))
    THEN LET from_address == to_checksum_address(tx.from)
             entered == WithEntry(stats, from_address)
         IN  IF ~is_nodeset_transaction(tx, NODESET_VAULT_ADDRESS)
             THEN entered
             ELSE Counted(entered, from_address, tx)
    ELSE stats

\* lines 139-140 moved under the test of line 141
ProcessTx_EntryOnlyOnSuccess(stats, tx) ==
    IF IsAggregateCall(Get(tx, "input", <<>>))
    THEN LET from_address == to_checksum_address(tx.from)
         IN  IF ~is_nodeset_transaction(tx, NODESET_VAULT_ADDRESS)
             THEN stats
             ELSE IF IntOf(Get(tx, "isError", "0")) = 0
                  THEN Counted(WithEntry(stats, from_address), from_address, tx)
                  ELSE stats
    ELSE stats

\* the body of the for loop, lines 133-142
ProcessTx(stats, tx) ==
    IF IsAggregateCall(Get(tx, "input", <<>>))
    THEN LET from_address == to_checksum_address(tx.from)
         IN  IF ~is_nodeset_transaction(tx, NODESET_VAULT_ADDRESS)
             THEN stats
             ELSE Counted(WithEntry(stats, from_address), from_address, tx)
    ELSE stats

\* the subscripts tx['from'] of line 135 and tx['hash'] of line 138 raise
\* KeyError on a record without the member
PassRaises(tx) ==
    IF ~IsAggregateCall(Get(tx, "input", <<>>)) THEN "none"
    ELSE IF "from" \notin DOMAIN tx THEN "KeyError"
    ELSE IF ~is_nodeset_transaction(tx, NODESET_VAULT_ADDRESS) THEN "none"
    ELSE IF "hash" \notin DOMAIN tx THEN "KeyError"
    ELSE "none"

\* the loop's state: the table, the position of the next record, and the
\* exception that ended the loop ("none" while it goes on)
LoopState(stats, i, e) == [stats |-> stats, idx |-> i, exc |-> e]

\* one iteration of the for loop on record txs[i]
Iteration(txs, st, i) ==
    IF PassRaises(txs[i]) # "none"
    THEN LoopState(st.stats, i, PassRaises(txs[i]))
    ELSE LoopState(ProcessTx(st.stats, txs[i]), i + 1, "none")

\* the iterations on txs[lo..hi] in order, from loop state st; an iteration
\* that raises ends the loop.  The range is halved so that a page of
\* PAGE_OFFSET records does not nest PAGE_OFFSET evaluations, and the state
\* after the first half is bound as a value, so that it is computed once.
RECURSIVE Iterations(_, _, _, _)
Iterations(txs, st, lo, hi) ==
    IF st.exc # "none" \/ lo > hi THEN st
    ELSE IF lo = hi THEN Iteration(txs, st, lo)
    ELSE LET mid == (lo + hi) \div 2
         IN  CHOOSE r \in {Iterations(txs, half, mid + 1, hi) :
                              half \in {Iterations(txs, st, lo, mid)}} : TRUE

\* the next n iterations of the for loop of line 132 (fewer when the list ends)
Iterate(n) ==
    /\ pc = "loop"
    /\ idx <= Len(transactions)
    /\ \E last \in {IF idx + n - 1 < Len(transactions) THEN idx + n - 1
                                                        ELSE Len(transactions)},
          from \in {LoopState(address_stats, idx, "none")} :
        \E st \in {Iterations(transactions, from, idx, last)} :
           /\ address_stats' = st.stats
           /\ idx' = st.idx
           /\ exc' = st.exc
           /\ pc' = IF st.exc = "none" THEN "loop" ELSE "exit"
    /\ UNCHANGED <<api_key, node_up, probed, history, fetchVars, transactions, printed>>

\* one iteration of the for loop
LoopStep == Iterate(1)

\* the for loop from its first record to its last, lines 132-142
Loop == Iterate(Len(transactions))

----------------------------------------------------------------------------
(* summarize_validators_by_operator: the report, lines 144-161 *)

\* Counter over the set of the counts: equal counts collapse into one
validator_counts_OfSet(stats) ==
    [c \in {stats[a].successful : a \in DOMAIN stats} |-> 1]

\* Counter(stats['successful'] for stats in address_stats.values())
validator_counts(stats) ==
    [c \in {stats[a].successful : a \in DOMAIN stats} |->
        Cardinality({a \in DOMAIN stats : stats[a].successful = c})]

Least(S) == CHOOSE x \in S : \A y \in S : x <= y

\* sorted(S)
RECURSIVE Sorted(_)
Sorted(S) == IF S = {} THEN <<>> ELSE <<Least(S)>> \o Sorted(S \ {Least(S)})

sorted_counts(stats) == Sorted(DOMAIN validator_counts(stats))

\* line 155 without the factor operator_count
RECURSIVE TotalAfter_NoMultiplicity(_, _, _)
TotalAfter_NoMultiplicity(counts, sorted, n) ==
    IF n = 0 THEN 0
    ELSE TotalAfter_NoMultiplicity(counts, sorted, n - 1) + sorted[n]

\* total_validators after the first n buckets, lines 151-155
RECURSIVE TotalAfter(_, _, _)
TotalAfter(counts, sorted, n) ==
    IF n = 0 THEN 0
    ELSE TotalAfter(counts, sorted, n - 1) + counts[sorted[n]] * sorted[n]

total_validators(stats) ==
    TotalAfter(validator_counts(stats), sorted_counts(stats), Len(sorted_counts(stats)))

\* sorted_counts[0] in place of sorted_counts[-1]
max_validators_First(stats) == sorted_counts(stats)[1]

\* sorted_counts[-1]
max_validators(stats) == sorted_counts(stats)[Len(sorted_counts(stats))]

Line(kind, a, b) == [kind |-> kind, a |-> a, b |-> b]

\* "No NodeSet-related Aggregate transactions found."
NoneFoundLine == Line("none_found", 0, 0)

\* "Number of operators with {a} validators: {b}", one per bucket in sorted order
BucketLines(stats) ==
    [k \in 1..Len(sorted_counts(stats)) |->
        Line("bucket", sorted_counts(stats)[k],
             validator_counts(stats)[sorted_counts(stats)[k]])]

\* the lines printed before the division of line 160 is evaluated
LinesBeforeRatio(stats) ==
    BucketLines(stats) \o <<Line("total", total_validators(stats), 0),
                            Line("max", max_validators(stats), 0)>>

\* the quotient a / b of line 160, kept as the pair of its operands
RatioLine(stats) == Line("ratio", max_validators(stats), total_validators(stats))

\* line 144: the guard of the early return
NothingFound(stats) == DOMAIN stats = {}

\* line 160 divides by zero
DivisionRaises(stats) == total_validators(stats) = 0

Report ==
    /\ pc = "loop"
    /\ idx > Len(transactions)
    /\ pc' = "exit"
    /\ IF NothingFound(address_stats)
       THEN /\ printed' = <<NoneFoundLine>>
            /\ UNCHANGED exc
       ELSE IF DivisionRaises(address_stats)
       THEN /\ printed' = LinesBeforeRatio(address_stats)
            /\ exc' = "ZeroDivisionError"
       ELSE /\ printed' = Append(LinesBeforeRatio(address_stats), RatioLine(address_stats))
            /\ UNCHANGED exc
    /\ UNCHANGED <<api_key, node_up, probed, history, fetchVars, transactions, idx,
                   address_stats>>

\* The pass alone: it starts where fetch_multicall_transactions has returned
\* from its first request, with a failure or with a last page of up to MaxLen records.
SummaryResponses ==
    {TransportError, HttpError(500), JsonObject("0", "list", <<>>)}
      \cup {JsonObject("1", "list", r) : r \in SeqsUpTo(Records, MaxLen)}

InitSummary ==
    \E resp \in SummaryResponses :
        /\ pc = "loop"
        /\ api_key = "KEY"
        /\ node_up = TRUE
        /\ probed = TRUE
        /\ history = <<>>
        /\ page = 1
        /\ attempt = 0
        /\ log = <<[page |-> 1, resp |-> resp]>>
        /\ sleeps = <<>>
        /\ all_transactions = IF IsPage(resp) THEN Extend(<<>>, resp) ELSE <<>>
        /\ transactions = all_transactions
        /\ idx = 1
        /\ address_stats = <<>>
        /\ printed = <<>>
        /\ exc = "none"

NextSummary == LoopStep \/ Report

SpecSummary == InitSummary /\ [][NextSummary]_vars

----------------------------------------------------------------------------
(* main and setup_web3 *)

\* main without the test of line 168
Main_NoKeyCheck ==
    /\ pc = "main"
    /\ pc' = "setup_web3"
    /\ UNCHANGED <<sumVars, exc, api_key, node_up, probed, history, fetchVars>>

\* lines 165-172
Main ==
    /\ pc = "main"
    /\ IF api_key \in {"None", ""}
       THEN Raise("ValueError")
       ELSE pc' = "setup_web3" /\ UNCHANGED <<sumVars, exc>>
    /\ UNCHANGED <<api_key, node_up, probed, history, fetchVars>>

\* lines 125 and 40-46, then the entry of fetch_multicall_transactions, lines 59-60
SetupWeb3 ==
    /\ pc = "setup_web3"
    /\ probed' = TRUE
    /\ IF ~node_up
       THEN Raise("ConnectionError") /\ UNCHANGED fetchVars
       ELSE /\ pc' = "fetch"
            /\ page' = 1
            /\ attempt' = 0
            /\ all_transactions' = <<>>
            /\ UNCHANGED <<log, sleeps, sumVars, exc>>
    /\ UNCHANGED <<api_key, node_up, history>>

Init ==
    /\ pc = "main"
    /\ api_key \in {"None", "", "KEY"}
    /\ node_up \in BOOLEAN
    /\ probed = FALSE
    /\ history = <<>>
    /\ page = 1
    /\ attempt = 0
    /\ all_transactions = <<>>
    /\ log = <<>>
    /\ sleeps = <<>>
    /\ transactions = <<>>
    /\ idx = 1
    /\ address_stats = <<>>
    /\ printed = <<>>
    /\ exc = "none"

Next == Main \/ SetupWeb3 \/ FetchAttempt \/ Loop \/ Report

Spec == Init /\ [][Next]_vars

\* The program is one thread that keeps running: a step that can be taken is taken.
SpecLive == Init /\ [][Next]_vars /\ WF_vars(Next)

\* The run against an API that serves a history of about one page, which
\* grows while the run is under way.
InitHistory ==
    /\ pc = "main"
    /\ api_key = "KEY"
    /\ node_up \in BOOLEAN
    /\ probed = FALSE
    /\ history \in {HistoryOf(n) : n \in (PAGE_OFFSET - 1)..PAGE_OFFSET}
    /\ page = 1
    /\ attempt = 0
    /\ all_transactions = <<>>
    /\ log = <<>>
    /\ sleeps = <<>>
    /\ transactions = <<>>
    /\ idx = 1
    /\ address_stats = <<>>
    /\ printed = <<>>
    /\ exc = "none"

NextHistory ==
    Main \/ SetupWeb3 \/ FetchFromHistory \/ NewTransaction \/ Loop \/ Report

SpecHistory == InitHistory /\ [][NextHistory]_vars

----------------------------------------------------------------------------
(* Vocabulary of the properties, read off the request log *)

Requests == 1..Len(log)

RequestsFor(p) == {k \in Requests : log[k].page = p}

\* request k is the n-th request for its page
AttemptNo(k) == Cardinality({j \in RequestsFor(log[k].page) : j <= k})

Is429(r)  == r.kind = "http" /\ r.code = 429

\* an error response other than HTTP 429
IsOtherError(r) ==
    \/ r.kind = "transport"
    \/ r.kind = "http" /\ r.code >= 400 /\ r.code # 429
    \/ r.kind = "http" /\ r.code = 200 /\ r.body = "not_json"

\* a JSON object with a status other than "0" whose result is an array (or missing)
IsSuccessPage(r) ==
    /\ r.kind = "http" /\ r.code = 200 /\ r.body = "dict"
    /\ r.status # "0" /\ r.rkind \in {"list", "absent"}

ArrayOf(r) == IF r.rkind = "list" THEN r.result ELSE <<>>

\* the result arrays of the success pages among the first n requests, in order
RECURSIVE PagesUpTo(_)
PagesUpTo(n) ==
    IF n = 0 THEN <<>>
    ELSE IF IsSuccessPage(log[n].resp)
         THEN PagesUpTo(n - 1) \o ArrayOf(log[n].resp)
         ELSE PagesUpTo(n - 1)

\* an exception has left fetch_multicall_transactions: the run ended after a
\* request with nothing handed to the pass and nothing printed
FetchRaised ==
    pc = "exit" /\ exc # "none" /\ log # <<>> /\ idx = 1 /\ printed = <<>>
        /\ exc \notin {"KeyError", "ZeroDivisionError"}

\* fetch_multicall_transactions has returned `list` and raised nothing
Returned(list) ==
    /\ pc \in {"loop", "exit"} /\ log # <<>> /\ ~FetchRaised
    /\ transactions = list /\ all_transactions = list

SleptAfter(k) == \E j \in 1..Len(sleeps) : sleeps[j].after = k

----------------------------------------------------------------------------
\* C1: at most MAX_RETRIES = 3 requests are issued for any page, whatever was
\* spent on earlier pages; after a 429 on attempt 1 or 2 the function stays in
\* its loop with the same page as its next request; a 429 on the 3rd attempt
\* is the last request, and the function has returned the records of the
\* earlier pages without raising.
C1_RetryBudgetPerPage ==
    /\ \A p \in 1..MaxPage : Cardinality(RequestsFor(p)) <= 3
    /\ \A k \in Requests :
        Is429(log[k].resp) =>
            IF AttemptNo(k) < 3
            THEN IF k < Len(log)
                 THEN log[k + 1].page = log[k].page
                 ELSE pc = "fetch" /\ exc = "none" /\ page = log[k].page
            ELSE /\ k = Len(log)
                 /\ Returned(PagesUpTo(k - 1))

\* Page 1 took two 429s before its full page, and page 2 still got three
\* requests, the third answering 429: the page-1 records are returned.
C1_Witness ==
    /\ Len(log) = 6
    /\ Is429(log[1].resp) /\ Is429(log[2].resp) /\ IsSuccessPage(log[3].resp)
    /\ RequestsFor(2) = {4, 5, 6}
    /\ Is429(log[6].resp)
    /\ Returned(log[3].resp.result)
    /\ Len(transactions) = PAGE_OFFSET

\* C2 (as claimed): once requests have been issued, no exception leaves
\* fetch_multicall_transactions, whatever the responses were.
C2_FetchNeverRaises == ~FetchRaised

\* C4: a success response with fewer than 1000 records is the last request;
\* its records end the accumulated list, which is returned.
C4_ShortPageEndsFetch ==
    \A k \in Requests :
        (IsSuccessPage(log[k].resp) /\ Len(ArrayOf(log[k].resp)) < 1000) =>
            /\ k = Len(log)
            /\ Returned(PagesUpTo(k - 1) \o ArrayOf(log[k].resp))

\* A page of 999 records arrives as page 2 and ends the run with 1999 records.
C4_Witness ==
    /\ Len(log) = 2
    /\ log[2].page = 2
    /\ IsSuccessPage(log[2].resp)
    /\ Len(log[2].resp.result) = 999
    /\ pc = "loop"
    /\ Len(transactions) = 1999

\* C5: the accumulated list is at all times the concatenation, in request
\* order, of the result arrays of the responses with a success status, and is
\* what is returned; requests go to pages 1, 2, 3, ... in order, a page is
\* requested again only after a 429, the next page only after a full page of
\* 1000 records, and no page is answered by two success responses.
C5_ConcatenationOfPages ==
    /\ all_transactions = PagesUpTo(Len(log))
    /\ pc = "loop" => transactions = PagesUpTo(Len(log))
    /\ log # <<>> => log[1].page = 1
    /\ \A k \in Requests : k < Len(log) =>
        \/ /\ log[k + 1].page = log[k].page
           /\ Is429(log[k].resp)
        \/ /\ log[k + 1].page = log[k].page + 1
           /\ IsSuccessPage(log[k].resp)
           /\ Len(ArrayOf(log[k].resp)) = 1000
    /\ \A j, k \in Requests :
        (IsSuccessPage(log[j].resp) /\ IsSuccessPage(log[k].resp)
            /\ log[j].page = log[k].page) => j = k

\* Page 1 needed a retry and was full, page 2 was answered with status "0"
\* and a record: exactly the 1000 records of page 1 are returned.
C5_Witness ==
    /\ Len(log) = 3
    /\ Is429(log[1].resp)
    /\ IsSuccessPage(log[2].resp)
    /\ log[3].page = 2
    /\ log[3].resp.status = "0" /\ log[3].resp.result # <<>>
    /\ Returned(log[2].resp.result)
    /\ Len(transactions) = PAGE_OFFSET

\* C6: an error response other than HTTP 429 is the last request: no retry
\* and no sleep follow it, and the records of the earlier pages are returned.
C6_OtherErrorsEndFetch ==
    \A k \in Requests :
        IsOtherError(log[k].resp) =>
            /\ k = Len(log)
            /\ ~SleptAfter(k)
            /\ Returned(PagesUpTo(k - 1))

\* On page 2, after one 429, an HTTP 500 arrives with attempts left.
C6_Witness ==
    /\ Len(log) = 3
    /\ log[2].page = 2 /\ Is429(log[2].resp)
    /\ log[3].page = 2 /\ AttemptNo(3) = 2
    /\ log[3].resp = HttpError(500)
    /\ Len(sleeps) = 1
    /\ Returned(log[1].resp.result)
    /\ Len(transactions) = PAGE_OFFSET

----------------------------------------------------------------------------
(* Vocabulary of the properties of the aggregation pass *)

\* the first 10 characters are the aggregate selector, letter case aside
StartsWithSelector(payload) ==
    /\ Len(payload) >= 10
    /\ \A k \in 1..10 : LowerChar(payload[k]) = AGGREGATE_SIGNATURE[k]

\* the 40 hex digits of the vault address occur in the payload, letter case aside
MentionsVault(payload) ==
    \E k \in 0..(Len(payload) - 40) :
        \A j \in 1..40 : LowerChar(payload[k + j]) = VaultDigits[j]

RelevantAggregate(tx) == StartsWithSelector(tx.input) /\ MentionsVault(tx.input)

\* the for loop is about to process transactions[idx] and does so in this step
ProcessesRecord == pc = "loop" /\ idx <= Len(transactions) /\ idx' = idx + 1

CountOf(stats, a) == IF a \in DOMAIN stats THEN stats[a].successful ELSE 0

FinalCounts == {address_stats[a].successful : a \in DOMAIN address_stats}

OperatorsWith(c) == {a \in DOMAIN address_stats : address_stats[a].successful = c}

\* the sum of count times operators over the first n lines printed
RECURSIVE SumOfBuckets(_)
SumOfBuckets(n) ==
    IF n = 0 THEN 0 ELSE SumOfBuckets(n - 1) + printed[n].a * printed[n].b

\* the counted records of operator a: relevant aggregate calls with flag zero
SuccessFrom(a) ==
    {k \in 1..Len(transactions) :
        /\ RelevantAggregate(transactions[k])
        /\ transactions[k].isError = "0"
        /\ to_checksum_address(transactions[k].from) = a}

\* three relevant successful aggregate records from A and one from B
ThreeFromAOneFromB ==
    /\ Len(transactions) = 4
    /\ Cardinality(SuccessFrom(AddrA_check)) = 3
    /\ Cardinality(SuccessFrom(AddrB_check)) = 1

----------------------------------------------------------------------------
\* C3 (as claimed): the division max / total of line 160 is evaluated only
\* with total > 0, so no run ends in a division by zero, also when every
\* relevant aggregate record carries a non-zero error flag.
C3_DivisionOnlyWhenPositive ==
    /\ (pc = "loop" /\ idx > Len(transactions) /\ DOMAIN address_stats # {})
          => total_validators(address_stats) > 0
    /\ exc # "ZeroDivisionError"

\* C7: processing a record whose first 10 characters are not the aggregate
\* selector (shorter and empty payloads included) leaves the operator table
\* as it is, also when the payload holds the vault's hex digits.
C7_NonAggregateLeavesTable ==
    [][(ProcessesRecord /\ ~StartsWithSelector(transactions[idx].input))
          => address_stats' = address_stats]_vars

\* After a counted record of A, a record with another selector that holds the
\* vault's digits has been processed: A still has 1 and no one else an entry.
C7_Witness ==
    /\ idx = 3
    /\ transactions[2].input = PayOtherVault
    /\ MentionsVault(transactions[2].input)
    /\ address_stats = (AddrA_check :> [successful |-> 1])

\* C8: a step of the pass never removes an operator and changes a successful
\* count by +1 or not at all; it changes only the count of the sender of the
\* record processed, and only when that record is a relevant aggregate call
\* with error flag zero.  A relevant aggregate record with a non-zero flag
\* therefore changes no count (a new entry starts at 0).
C8_CountsOnlyGrowOnSuccess ==
    [][ProcessesRecord =>
          /\ DOMAIN address_stats \subseteq DOMAIN address_stats'
          /\ \A a \in DOMAIN address_stats' :
                \/ CountOf(address_stats', a) = CountOf(address_stats, a)
                \/ /\ CountOf(address_stats', a) = CountOf(address_stats, a) + 1
                   /\ RelevantAggregate(transactions[idx])
                   /\ transactions[idx].isError = "0"
                   /\ a = to_checksum_address(transactions[idx].from)]_vars

\* A counted record of A was followed by a failed relevant aggregate record of
\* A and one of B: A keeps 1 and B is entered with 0.
C8_Witness ==
    /\ idx = 4
    /\ RelevantAggregate(transactions[2]) /\ transactions[2].isError = "1"
    /\ RelevantAggregate(transactions[3]) /\ transactions[3].isError = "1"
    /\ address_stats = (AddrA_check :> [successful |-> 1])
                          @@ (AddrB_check :> [successful |-> 0])

\* C9: with a non-empty operator table the report prints one line per distinct
\* final count, in increasing order, each with the number of operators at
\* that count; then the total, the sum over those lines of count times
\* operators; then the max, the largest final count.  Three counted records
\* of A and one of B print {1: 1, 3: 1}, total 4, max 3 and the ratio 3/4.
C9_ReportMatchesTable ==
    (pc = "exit" /\ DOMAIN address_stats # {}) =>
        LET n == Cardinality(FinalCounts)
        IN  /\ Len(printed) \in {n + 2, n + 3}
            /\ \A k \in 1..n :
                /\ printed[k].kind = "bucket"
                /\ printed[k].a \in FinalCounts
                /\ printed[k].b = Cardinality(OperatorsWith(printed[k].a))
                /\ k < n => printed[k].a < printed[k + 1].a
            /\ printed[n + 1] = Line("total", SumOfBuckets(n), 0)
            /\ printed[n + 2].kind = "max"
            /\ printed[n + 2].a \in FinalCounts
            /\ \A c \in FinalCounts : c <= printed[n + 2].a
            /\ Len(printed) = n + 3 =>
                  printed[n + 3] = Line("ratio", printed[n + 2].a, printed[n + 1].a)
            /\ ThreeFromAOneFromB =>
                  printed = <<Line("bucket", 1, 1), Line("bucket", 3, 1),
                              Line("total", 4, 0), Line("max", 3, 0),
                              Line("ratio", 3, 4)>>

\* The run over three counted records of A and one of B has reported.
C9_Witness ==
    /\ pc = "exit"
    /\ ThreeFromAOneFromB
    /\ Len(printed) = 5
    /\ printed[5] = Line("ratio", 3, 4)

\* C10: when no fetched record is both an aggregate call and relevant, the
\* run ends without an exception having printed the "none found" line and
\* nothing else: no bucket, total, max or ratio line.
C10_EmptyResultReported ==
    (pc = "exit" /\ \A k \in 1..Len(transactions) : ~RelevantAggregate(transactions[k]))
        => (printed = <<NoneFoundLine>> /\ exc = "none")

\* The first page failed, fetch returned the empty list, and the run has ended.
C10_Witness ==
    /\ pc = "exit"
    /\ log[1].resp = TransportError
    /\ transactions = <<>>
    /\ printed = <<NoneFoundLine>>
    /\ exc = "none"

----------------------------------------------------------------------------
(* Further vocabulary of the aggregation pass *)

\* the operator a sender address stands for, letter case aside
SenderOf(tx) == IF tx.from \in {AddrA_lower, AddrA_check} THEN AddrA_check ELSE AddrB_check

\* the relevant aggregate records among the first n records
RelevantUpTo(n) == {k \in 1..n : RelevantAggregate(transactions[k])}

\* those of them with error flag zero
CountedUpTo(n) == {k \in RelevantUpTo(n) : transactions[k].isError = "0"}

\* the records the for loop has processed
Processed == idx - 1

BucketLinesPrinted == {k \in 1..Len(printed) : printed[k].kind = "bucket"}

RECURSIVE SumOfSizes(_)
SumOfSizes(K) ==
    IF K = {} THEN 0
    ELSE LET k == CHOOSE x \in K : TRUE IN printed[k].b + SumOfSizes(K \ {k})

RECURSIVE SumOfCounts(_)
SumOfCounts(A) ==
    IF A = {} THEN 0
    ELSE LET a == CHOOSE x \in A : TRUE
         IN  address_stats[a].successful + SumOfCounts(A \ {a})

----------------------------------------------------------------------------
\* C11: at every step the keys of the operator table are checksummed
\* addresses and every count is a non-negative integer; once reported, every
\* operator is counted in exactly one bucket line, and the bucket sizes add up
\* to the number of operators, which is the number of distinct senders
\* (letter case aside) of relevant aggregate records.
C11_BucketsPartitionOperators ==
    /\ DOMAIN address_stats \subseteq {AddrA_check, AddrB_check}
    /\ \A a \in DOMAIN address_stats : address_stats[a].successful \in Nat
    /\ (pc = "exit" /\ DOMAIN address_stats # {}) =>
        /\ \A a \in DOMAIN address_stats :
              Cardinality({k \in BucketLinesPrinted :
                              printed[k].a = address_stats[a].successful}) = 1
        /\ SumOfSizes(BucketLinesPrinted) = Cardinality(DOMAIN address_stats)
        /\ Cardinality(DOMAIN address_stats)
              = Cardinality({SenderOf(transactions[k]) : k \in RelevantUpTo(Len(transactions))})

\* A sent under two spellings of its address and B once, A and B both end at
\* count 1: one bucket holds the two operators.
C11_Witness ==
    /\ pc = "exit"
    /\ \E j, k \in RelevantUpTo(Len(transactions)) :
          transactions[j].from = AddrA_lower /\ transactions[k].from = AddrA_check
    /\ DOMAIN address_stats = {AddrA_check, AddrB_check}
    /\ printed[1] = Line("bucket", 1, 2)

\* C15: at every step an operator has an entry iff a record processed so far
\* from that sender is a relevant aggregate call, whatever its error flag; an
\* operator all of whose relevant aggregate records failed stands at 0, and
\* the report prints the bucket of count 0 with these operators.
C15_EntryIffRelevantRecord ==
    /\ LET relevant == RelevantUpTo(Processed)
           failed   == {k \in relevant : transactions[k].isError # "0"}
       IN  \A a \in {AddrA_check, AddrB_check} :
            /\ a \in DOMAIN address_stats
                  <=> \E k \in relevant : SenderOf(transactions[k]) = a
            /\ (a \in DOMAIN address_stats
                  /\ \A k \in relevant : SenderOf(transactions[k]) = a => k \in failed)
                  => address_stats[a].successful = 0
    /\ (pc = "exit" /\ 0 \in FinalCounts) =>
          printed[1] = Line("bucket", 0, Cardinality(OperatorsWith(0)))

\* A has a counted record, B only a failed one: B is entered at 0 and the
\* report starts with the bucket of 0 validators and ends with the ratio.
C15_Witness ==
    /\ pc = "exit"
    /\ exc = "none"
    /\ address_stats = (AddrA_check :> [successful |-> 1])
                          @@ (AddrB_check :> [successful |-> 0])
    /\ printed[1] = Line("bucket", 0, 1)
    /\ printed[Len(printed)] = Line("ratio", 1, 1)

\* C17: at every step of the pass the per-operator counts add up to the number
\* of processed records that are relevant aggregate calls with error flag
\* zero; the total reported is the number of such records in the fetched list
\* and the max reported is at most the total.
C17_CountsAreConserved ==
    /\ SumOfCounts(DOMAIN address_stats) = Cardinality(CountedUpTo(Processed))
    /\ (pc = "exit" /\ DOMAIN address_stats # {}) =>
        LET n == Cardinality(BucketLinesPrinted)
        IN  /\ printed[n + 1] =
                  Line("total", Cardinality(CountedUpTo(Len(transactions))), 0)
            /\ printed[n + 2].kind = "max"
            /\ printed[n + 2].a <= printed[n + 1].a

\* A and B each have two counted records: one bucket of two operators, total 4.
C17_Witness ==
    /\ pc = "exit"
    /\ Len(transactions) = 4
    /\ Cardinality(CountedUpTo(4)) = 4
    /\ printed = <<Line("bucket", 2, 2), Line("total", 4, 0), Line("max", 2, 0),
                   Line("ratio", 2, 4)>>

----------------------------------------------------------------------------
\* C12: a request to the indexing API is issued only with the API key present
\* and non-empty and after the node probe has succeeded.  With a missing or
\* empty key the run ends with the configuration error (ValueError) before
\* the probe and before any request; with an unreachable node it ends with
\* ConnectionError before any request.
C12_KeyAndProbeBeforeFetch ==
    /\ log # <<>> => (api_key \notin {"None", ""} /\ probed /\ node_up)
    /\ probed => api_key \notin {"None", ""}
    /\ pc \in {"setup_web3", "fetch", "loop"} => api_key \notin {"None", ""}
    /\ pc \in {"fetch", "loop"} => (probed /\ node_up)
    /\ (pc = "exit" /\ api_key \in {"None", ""}) =>
          (exc = "ValueError" /\ ~probed /\ log = <<>>)
    /\ (pc = "exit" /\ api_key \notin {"None", ""} /\ ~node_up) =>
          (exc = "ConnectionError" /\ probed /\ log = <<>>)

\* The key is set, the probe found the node unreachable, the run has ended.
C12_Witness ==
    /\ pc = "exit"
    /\ api_key = "KEY"
    /\ probed /\ ~node_up
    /\ exc = "ConnectionError"
    /\ log = <<>>

----------------------------------------------------------------------------
\* C14: every sleep follows a 429 answer to the 1st or 2nd request for a page
\* and lasts 2 seconds after the 1st and 4 seconds after the 2nd; the request
\* after it is for the same page; and a sleep follows a request only in these
\* two cases: none after a 3rd 429, after another error, after a status "0"
\* answer or after a page of records.
C14_BackoffOnlyBetweenRetries ==
    /\ \A j \in 1..Len(sleeps) :
        LET k == sleeps[j].after
        IN  /\ k \in Requests
            /\ Is429(log[k].resp)
            /\ AttemptNo(k) \in {1, 2}
            /\ sleeps[j].delay = IF AttemptNo(k) = 1 THEN 2 ELSE 4
            /\ k < Len(log) => log[k + 1].page = log[k].page
            /\ j < Len(sleeps) => k < sleeps[j + 1].after
    /\ \A k \in Requests :
        SleptAfter(k) <=> (Is429(log[k].resp) /\ AttemptNo(k) < 3)

\* Page 1 was full; page 2 answered 429 three times: sleeps of 2 and 4
\* seconds after the first two, none after the third.
C14_Witness ==
    /\ Len(log) = 4
    /\ IsSuccessPage(log[1].resp)
    /\ RequestsFor(2) = {2, 3, 4}
    /\ Is429(log[4].resp)
    /\ sleeps = <<[delay |-> 2, after |-> 2], [delay |-> 4, after |-> 3]>>
    /\ pc = "loop"

----------------------------------------------------------------------------
\* C16 (as claimed): when every page request succeeds, no transaction of the
\* history occurs twice in the list fetch_multicall_transactions returns, also
\* when transactions are added to the history between two page requests.
C16_NoTransactionTwice ==
    pc = "loop" =>
        Cardinality({transactions[k].hash : k \in 1..Len(transactions)})
            = Len(transactions)

----------------------------------------------------------------------------
\* C18 (as claimed): with the last page of the history not full, whatever
\* else the API answers, fetch_multicall_transactions, once entered,
\* eventually returns.
C18_FetchEventuallyReturns == (pc = "fetch") ~> (pc = "loop")

\* What does hold of the loop: it always ends, by a return or by an exception
\* of C2, because every pass either leaves it, or goes to the next page after
\* a full page of records, or stays on the page with one more of its 3
\* attempts used up.
FetchLoopEnds ==
    /\ (pc = "fetch") ~> (pc \in {"loop", "exit"})
    /\ [][pc = "fetch" =>
            LET r == log'[Len(log')].resp
            IN  IF IsSuccessPage(r) /\ Len(ArrayOf(r)) = 1000
                THEN pc' = "fetch" /\ page' = page + 1 /\ attempt' = 0
                ELSE \/ pc' # "fetch"
                     \/ /\ page' = page
                        /\ attempt' = attempt + 1
                        /\ attempt' < 3]_vars

====
